---- MODULE Spec2Model ----
(***************************************************************************)
(* Model of musages.py: a directory of Python files is scanned for         *)
(* from-imports of a target module and for calls of the imported names;    *)
(* the calls are counted per fully-qualified name.                         *)
(*                                                                         *)
(* A source file is represented by the syntax tree ast.parse gives for it  *)
(* (or by SyntaxErrorFile when it does not parse).  Strings are TLA+       *)
(* strings; Python's None is the reserved string None.                     *)
(***************************************************************************)
EXTENDS Integers, Sequences, FiniteSets, TLC

VARIABLES
    fs,         \* the file system under the root: [isdir, files (in glob order)]
    args,       \* the parsed command line: [m, o]
    pc,         \* where main stands
    n,          \* number of paths the loop of get_calls has consumed
    hits,       \* get_calls: the tree-wide accumulator
    imports,    \* get_calls: the import list of the current iteration
    mapping,    \* get_calls: the alias map of the current iteration
    main_hits,  \* main: Counter(get_calls(...))
    csvfile,    \* rows written to the file args.o, or None
    stdout,     \* what was pretty-printed, or None
    stderr      \* the message of the failure that ended the run, or None

vars == <<fs, args, pc, n, hits, imports, mapping, main_hits, csvfile, stdout, stderr>>

None == "<None>"

\* Python truth value of an Optional[str]
Truthy(s) == s # None /\ s # ""

\* str.startswith
startswith(s, prefix) == Len(prefix) <= Len(s) /\ SubSeq(s, 1, Len(prefix)) = prefix

Range(s) == {s[j] : j \in 1..Len(s)}

EmptyDict == [k \in {} |-> None]

-----------------------------------------------------------------------------
(* Syntax trees, as the ast module builds them *)

alias(name, asname) == [kind |-> "alias", name |-> name, asname |-> asname]
ImportFrom(module, names) == [kind |-> "ImportFrom", module |-> module, names |-> names]
PlainImport(names) == [kind |-> "Import", names |-> names]
Name(id) == [kind |-> "Name", id |-> id]
Attribute(value, attr) == [kind |-> "Attribute", value |-> value, attr |-> attr]
Call(func, callargs) == [kind |-> "Call", func |-> func, args |-> callargs]
Expr(value) == [kind |-> "Expr", value |-> value]
FunctionDef(body) == [kind |-> "FunctionDef", body |-> body]
Module(body) == [kind |-> "Module", body |-> body]

\* a file whose text ast.parse rejects
SyntaxErrorFile == [kind |-> "SyntaxError"]

\* the child nodes generic_visit descends into, in field order
iter_child_nodes(node) ==
    CASE node.kind = "Module" -> node.body
      [] node.kind = "FunctionDef" -> node.body
      [] node.kind = "Expr" -> <<node.value>>
      [] node.kind = "Call" -> <<node.func>> \o node.args
      [] node.kind = "Attribute" -> <<node.value>>
      [] node.kind = "ImportFrom" -> node.names
      [] node.kind = "Import" -> node.names
      [] OTHER -> <<>>

-----------------------------------------------------------------------------
(* class Import *)

Import(module, name, asname) == [module |-> module, name |-> name, asname |-> asname]

\* variant: the alias is ignored
Import_id_unaliased(self) == self.name

Import_id(self) == IF Truthy(self.asname) THEN self.asname ELSE self.name

Import_key(self) == self.module \o "." \o self.name

-----------------------------------------------------------------------------
(* class ImportCollector *)

RECURSIVE ImportCollector_visit(_, _, _)
RECURSIVE ImportCollector_visit_children(_, _, _, _)

\* the test of visit_ImportFrom
\* variant: the prefix must end at a dot
ImportFrom_selected_dotted(node, name) ==
    Truthy(node.module) /\ (node.module = name \/ startswith(node.module, name \o "."))

ImportFrom_selected(node, name) == Truthy(node.module) /\ startswith(node.module, name)

\* the generator handed to acc.extend
ImportFrom_imports(node) ==
    [j \in 1..Len(node.names) |->
        Import(node.module, node.names[j].name, node.names[j].asname)]

ImportCollector_generic_visit(name, acc, node) ==
    ImportCollector_visit_children(name, acc, iter_child_nodes(node), 1)

visit_ImportFrom(name, acc, node) ==
    LET acc1 == IF ImportFrom_selected(node, name)
                THEN acc \o ImportFrom_imports(node)
                ELSE acc
    IN  ImportCollector_generic_visit(name, acc1, node)

ImportCollector_visit(name, acc, node) ==
    IF node.kind = "ImportFrom"
    THEN visit_ImportFrom(name, acc, node)
    ELSE ImportCollector_generic_visit(name, acc, node)

ImportCollector_visit_children(name, acc, children, k) ==
    IF k > Len(children)
    THEN acc
    ELSE ImportCollector_visit_children(
             name, ImportCollector_visit(name, acc, children[k]), children, k + 1)

-----------------------------------------------------------------------------
(* class CallsCollector *)

RECURSIVE CallsCollector_visit(_, _, _)
RECURSIVE CallsCollector_visit_children(_, _, _, _)

\* the test of visit_Call
Call_selected(node, ids) == node.func.kind = "Name" /\ node.func.id \in DOMAIN ids

CallsCollector_generic_visit(ids, acc, node) ==
    CallsCollector_visit_children(ids, acc, iter_child_nodes(node), 1)

\* variant: the arguments of the call are not visited
visit_Call_shallow(ids, acc, node) ==
    IF Call_selected(node, ids) THEN Append(acc, ids[node.func.id]) ELSE acc

\* variant: the attribute name of an attribute callee is looked up too
visit_Call_any_callee(ids, acc, node) ==
    LET callee == IF node.func.kind = "Name" THEN node.func.id ELSE node.func.attr
        acc1 == IF callee \in DOMAIN ids THEN Append(acc, ids[callee]) ELSE acc
    IN  CallsCollector_generic_visit(ids, acc1, node)

visit_Call(ids, acc, node) ==
    LET acc1 == IF Call_selected(node, ids)
                THEN Append(acc, ids[node.func.id])
                ELSE acc
    IN  CallsCollector_generic_visit(ids, acc1, node)

CallsCollector_visit(ids, acc, node) ==
    IF node.kind = "Call"
    THEN visit_Call(ids, acc, node)
    ELSE CallsCollector_generic_visit(ids, acc, node)

CallsCollector_visit_children(ids, acc, children, k) ==
    IF k > Len(children)
    THEN acc
    ELSE CallsCollector_visit_children(
             ids, CallsCollector_visit(ids, acc, children[k]), children, k + 1)

-----------------------------------------------------------------------------
(* parse_file and the body of the loop of get_calls *)

\* variant: a file that does not parse is read as an empty one
parse_file_raises_never(file) == FALSE

parse_file_raises(file) == file.kind = "SyntaxError"

parse_file(file) == file

\* one step of the dict comprehension {i.id: i.key for i in imports}
\* variant: a key already present keeps its value
dict_setitem_keep(d, k, v) == d @@ (k :> v)

dict_setitem(d, k, v) == (k :> v) @@ d

RECURSIVE dict_comprehension(_, _, _)
dict_comprehension(imps, k, d) ==
    IF k > Len(imps)
    THEN d
    ELSE dict_comprehension(
             imps, k + 1, dict_setitem(d, Import_id(imps[k]), Import_key(imps[k])))

\* imports: List[Import] = [] ; previous is the list of the iteration before
\* variant: the list is created once, before the loop
new_imports_carried(previous) == previous

new_imports(previous) == <<>>

\* variant: a single traversal that binds and looks up as it goes
RECURSIVE OnePass_visit(_, _, _)
RECURSIVE OnePass_visit_children(_, _, _, _)
OnePass_visit(module, st, node) ==
    LET st1 ==
            IF node.kind = "ImportFrom" /\ ImportFrom_selected(node, module)
            THEN LET imps == st.imports \o ImportFrom_imports(node)
                 IN  [st EXCEPT !.imports = imps,
                                !.mapping = dict_comprehension(imps, 1, EmptyDict)]
            ELSE IF node.kind = "Call" /\ Call_selected(node, st.mapping)
            THEN [st EXCEPT !.hits = Append(st.hits, st.mapping[node.func.id])]
            ELSE st
    IN  OnePass_visit_children(module, st1, iter_child_nodes(node), 1)

OnePass_visit_children(module, st, children, k) ==
    IF k > Len(children)
    THEN st
    ELSE OnePass_visit_children(module, OnePass_visit(module, st, children[k]), children, k + 1)

get_calls_iteration_one_pass(previous, acc, tree, module) ==
    OnePass_visit(module, [imports |-> <<>>, mapping |-> EmptyDict, hits |-> acc], tree)

\* lines 77-80 for one parsed tree: the import list, the alias map and the
\* accumulator after the iteration
get_calls_iteration(previous, acc, tree, module) ==
    LET imps == ImportCollector_visit(module, new_imports(previous), tree)
        ids == dict_comprehension(imps, 1, EmptyDict)
    IN  [imports |-> imps, mapping |-> ids, hits |-> CallsCollector_visit(ids, acc, tree)]

\* the locals of get_calls after the first k paths, for files that all parse
\* (the singleton sets make TLC finish one iteration before it starts the next)
RECURSIVE get_calls_after(_, _, _)
get_calls_after(files, module, k) ==
    IF k = 0
    THEN [imports |-> <<>>, mapping |-> EmptyDict, hits |-> <<>>]
    ELSE CHOOSE it \in
             {get_calls_iteration(before.imports, before.hits, parse_file(files[k]), module) :
                 before \in {get_calls_after(files, module, k - 1)}} : TRUE

get_calls(files, module) == get_calls_after(files, module, Len(files)).hits

-----------------------------------------------------------------------------
(* Counter and most_common: a Counter is the sequence of its (key, count)   *)
(* items in insertion order                                                  *)

RECURSIVE Counter_update(_, _, _)
Counter_update(items, seq, k) ==
    IF k > Len(seq)
    THEN items
    ELSE LET at == {j \in 1..Len(items) : items[j][1] = seq[k]}
         IN  Counter_update(
                 IF at = {}
                 THEN Append(items, <<seq[k], 1>>)
                 ELSE [j \in 1..Len(items) |->
                          IF j \in at THEN <<items[j][1], items[j][2] + 1>> ELSE items[j]],
                 seq, k + 1)

\* variant: counts runs of equal neighbours instead of occurrences
RECURSIVE Counter_runs_from(_, _, _)
Counter_runs_from(items, seq, k) ==
    IF k > Len(seq)
    THEN items
    ELSE Counter_runs_from(
             IF items # <<>> /\ items[Len(items)][1] = seq[k]
             THEN [items EXCEPT ![Len(items)] = <<seq[k], items[Len(items)][2] + 1>>]
             ELSE Append(items, <<seq[k], 1>>),
             seq, k + 1)

Counter_runs(seq) == Counter_runs_from(<<>>, seq, 1)

Counter(seq) == Counter_update(<<>>, seq, 1)

\* sorted(items, key=count, reverse=True): stable, so ties keep insertion order
RECURSIVE most_common(_)
most_common(items) ==
    IF items = <<>>
    THEN <<>>
    ELSE LET top == CHOOSE j \in 1..Len(items) :
                        /\ \A k \in 1..Len(items) : items[k][2] <= items[j][2]
                        /\ \A k \in 1..(j - 1) : items[k][2] < items[j][2]
             rest == [k \in 1..(Len(items) - 1) |->
                         IF k < top THEN items[k] ELSE items[k + 1]]
         IN  <<items[top]>> \o most_common(rest)

-----------------------------------------------------------------------------
(* main and get_calls, step by step *)

NotADirectory == "given path is not a directory"
Traceback == "Traceback (most recent call last)"

\* variant: the directory check always passes
os_path_isdir_unchecked(path) == TRUE

os_path_isdir(path) == path.isdir

\* the process exit status once main has ended
exit_status(at) == IF at = "returned" THEN 0 ELSE 1

\* line 95-96: raise SystemExit(...)
main_not_a_directory ==
    /\ pc = "main"
    /\ ~os_path_isdir(fs)
    /\ pc' = "exit"
    /\ stderr' = NotADirectory
    /\ UNCHANGED <<fs, args, n, hits, imports, mapping, main_hits, csvfile, stdout>>

\* line 98 calls get_calls; line 73
main_call_get_calls ==
    /\ pc = "main"
    /\ os_path_isdir(fs)
    /\ pc' = "get_calls"
    /\ hits' = <<>>
    /\ n' = 0
    /\ UNCHANGED <<fs, args, imports, mapping, main_hits, csvfile, stdout, stderr>>

\* lines 75-80: one iteration of the loop
get_calls_loop ==
    /\ pc = "get_calls"
    /\ n < Len(fs.files)
    /\ ~parse_file_raises(fs.files[n + 1])
    /\ LET it == get_calls_iteration(imports, hits, parse_file(fs.files[n + 1]), args.m)
       IN  /\ imports' = it.imports
           /\ mapping' = it.mapping
           /\ hits' = it.hits
    /\ n' = n + 1
    /\ UNCHANGED <<fs, args, pc, main_hits, csvfile, stdout, stderr>>

\* line 76: ast.parse raises, nothing catches it
get_calls_parse_error ==
    /\ pc = "get_calls"
    /\ n < Len(fs.files)
    /\ parse_file_raises(fs.files[n + 1])
    /\ pc' = "raised"
    /\ stderr' = Traceback
    /\ UNCHANGED <<fs, args, n, hits, imports, mapping, main_hits, csvfile, stdout>>

\* line 82 returns, line 98 counts, lines 100-104 write the rows
main_write_csv ==
    /\ pc = "get_calls"
    /\ n = Len(fs.files)
    /\ Truthy(args.o)
    /\ main_hits' = Counter(hits)
    /\ csvfile' = most_common(Counter(hits))
    /\ pc' = "returned"
    /\ UNCHANGED <<fs, args, n, hits, imports, mapping, stdout, stderr>>

\* line 82 returns, line 98 counts, lines 106-107 print
main_pprint ==
    /\ pc = "get_calls"
    /\ n = Len(fs.files)
    /\ ~Truthy(args.o)
    /\ main_hits' = Counter(hits)
    /\ stdout' = Counter(hits)
    /\ pc' = "returned"
    /\ UNCHANGED <<fs, args, n, hits, imports, mapping, csvfile, stderr>>

Next ==
    \/ main_not_a_directory
    \/ main_call_get_calls
    \/ get_calls_loop
    \/ get_calls_parse_error
    \/ main_write_csv
    \/ main_pprint

-----------------------------------------------------------------------------
(* Inputs *)

MaxFiles == 2    \* files in a directory
MaxBody == 2     \* statements of a file of a directory of several files
MaxStmts == 3    \* statements of the file of a one-file directory

FromImport(module, name, asname) == ImportFrom(module, <<alias(name, asname)>>)
CallOf(id, callargs) == Call(Name(id), callargs)

SeqsUpTo(S, max) == UNION {[1..k -> S] : k \in 0..max}
Sources(pool, max) == {Module(body) : body \in SeqsUpTo(pool, max)} \cup {SyntaxErrorFile}

Start(f, a) ==
    /\ fs = f
    /\ args = a
    /\ pc = "main"
    /\ n = 0
    /\ hits = <<>>
    /\ imports = <<>>
    /\ mapping = EmptyDict
    /\ main_hits = None
    /\ csvfile = None
    /\ stdout = None
    /\ stderr = None

Outputs == {None, "out.csv"}

\* a path that is no directory has nothing under it
NoDirectory == [isdir |-> FALSE, files |-> <<>>]

\* directories of several files, made of two functions that each import from m
\* and then call x(f()): in the first x is f of m and f is not bound, in
\* the second x is g of m and f is f of m
CallBoth == Expr(CallOf("x", <<CallOf("f", <<>>)>>))

TreePool ==
    { FunctionDef(<<FromImport("m", "f", "x"), CallBoth>>),
      FunctionDef(<<ImportFrom("m", <<alias("f", None), alias("g", "x")>>), CallBoth>>) }

Init ==
    \E f \in {NoDirectory} \cup
              {[isdir |-> TRUE, files |-> d] : d \in SeqsUpTo(Sources(TreePool, MaxBody), MaxFiles)},
       o \in Outputs :
        Start(f, [m |-> "m", o |-> o])

Spec == Init /\ [][Next]_vars

\* one-file directories: aliases, rebinding, attribute calls, nested scopes
FilePool ==
    { FromImport("foo", "f", "x"),
      FromImport("foo", "g", "x"),
      FromImport("bar", "f", "x"),
      PlainImport(<<alias("foo", None)>>),
      Expr(CallOf("x", <<>>)),
      Expr(CallOf("f", <<>>)),
      Expr(Call(Attribute(Name("foo"), "x"), <<>>)),
      FunctionDef(<<Expr(CallOf("x", <<>>))>>),
      FunctionDef(<<FromImport("foo", "g", "x")>>) }

InitFile ==
    \E f \in {NoDirectory} \cup
              {[isdir |-> TRUE, files |-> <<s>>] : s \in Sources(FilePool, MaxStmts)},
       o \in Outputs :
        Start(f, [m |-> "foo", o |-> o])

SpecFile == InitFile /\ [][Next]_vars

\* one-file directories: the module names a target prefix is compared with
PrefixModules == {"foo", "foo.bar", "foobar", "fo", "bar", None}
PrefixTargets == {"foo", "foo.bar", ""}

PrefixPool ==
    {FromImport(module, "f", None) : module \in PrefixModules} \cup {Expr(CallOf("f", <<>>))}

InitPrefix ==
    \E f \in {NoDirectory} \cup
              {[isdir |-> TRUE, files |-> <<s>>] : s \in Sources(PrefixPool, MaxStmts)},
       m \in PrefixTargets, o \in Outputs :
        Start(f, [m |-> m, o |-> o])

SpecPrefix == InitPrefix /\ [][Next]_vars

-----------------------------------------------------------------------------
(* Vocabulary of the properties: the nodes of a tree with their positions,  *)
(* the call expressions and the from-import bindings among them              *)

\* the nodes of the tree under node, each with its position: the child
\* indexes that lead to it from the root
RECURSIVE LocatedUnder(_, _)
LocatedUnder(node, pos) ==
    {[pos |-> pos, node |-> node]} \cup
    UNION {LocatedUnder(iter_child_nodes(node)[k], Append(pos, k)) :
              k \in 1..Len(iter_child_nodes(node))}

Located(tree) == LocatedUnder(tree, <<>>)

\* p is met before q when the tree is walked parent first, children left to right
Before(p, q) ==
    \E k \in 0..Len(p) :
        /\ k <= Len(q)
        /\ \A j \in 1..k : p[j] = q[j]
        /\ \/ k = Len(p) /\ k < Len(q)
           \/ k < Len(p) /\ k < Len(q) /\ p[k + 1] < q[k + 1]

\* t is a prefix of s, by the characters
HasPrefix(s, t) == \E k \in 0..Len(s) : SubSeq(s, 1, k) = t

BareCalls(nodes) == {e \in nodes : e.node.kind = "Call" /\ e.node.func.kind = "Name"}

AttributeCalls(nodes) ==
    {e \in nodes : e.node.kind = "Call" /\ e.node.func.kind = "Attribute"}

Callee(e) == e.node.func.id

CallsOf(calls, id) == {e \in calls : Callee(e) = id}

FromImports(nodes) == {e \in nodes : e.node.kind = "ImportFrom"}

TargetImports(nodes, target) ==
    {e \in FromImports(nodes) : e.node.module # None /\ HasPrefix(e.node.module, target)}

\* the bindings of the from-imports of the target: where, which imported
\* name, which local identifier, which fully-qualified key
TargetBindings(nodes, target) ==
    UNION {{[pos |-> e.pos, j |-> j,
             name |-> e.node.names[j].name,
             asname |-> e.node.names[j].asname,
             id |-> IF e.node.names[j].asname = None
                    THEN e.node.names[j].name
                    ELSE e.node.names[j].asname,
             key |-> e.node.module \o "." \o e.node.names[j].name] :
               j \in 1..Len(e.node.names)} :
              e \in TargetImports(nodes, target)}

Earlier(b, c) == Before(b.pos, c.pos) \/ (b.pos = c.pos /\ b.j < c.j)

\* of the bindings B, those no later binding of the same identifier follows
LastBindings(B) == {b \in B : \A c \in B : c.id = b.id => ~Earlier(b, c)}

\* the alias map the bindings B give, the last binding of an identifier deciding
LocalAliasMap(B) ==
    [id \in {b.id : b \in B} |-> (CHOOSE b \in LastBindings(B) : b.id = id).key]

\* of the calls, those whose callee the map binds, and those it maps to K
BoundCalls(calls, ids) == {e \in calls : Callee(e) \in DOMAIN ids}

CallsCountedAs(calls, ids, K) == {e \in BoundCalls(calls, ids) : ids[Callee(e)] = K}

Occurrences(seq, x) == Cardinality({j \in 1..Len(seq) : seq[j] = x})

Repeat(x, k) == [j \in 1..k |-> x]

RECURSIVE SumFrom(_, _)
SumFrom(f, k) == IF k > Len(f) THEN 0 ELSE f[k] + SumFrom(f, k + 1)

Sum(f) == SumFrom(f, 1)

Parses(files) == \A k \in 1..Len(files) : files[k] # SyntaxErrorFile

\* the alias map of one file, taken alone
AliasMapOf(file, target) == get_calls_iteration(<<>>, <<>>, file, target).mapping

\* the one file of a one-file directory, once the loop has processed it
Scanned == fs.isdir /\ Len(fs.files) = 1 /\ n = 1

TheFile == fs.files[1]

-----------------------------------------------------------------------------
(* C1 *)

\* for each key of the alias map of the file, the number of bare-identifier
\* calls of the file whose callee the map sends to the key
CallsPerKey(file, target) ==
    LET ids == AliasMapOf(file, target)
        calls == BareCalls(Located(file))
    IN  [K \in {ids[x] : x \in DOMAIN ids} |-> Cardinality(CallsCountedAs(calls, ids, K))]

TotalCalls(perFile, K) ==
    Sum([k \in 1..Len(perFile) |-> IF K \in DOMAIN perFile[k] THEN perFile[k][K] ELSE 0])

\* C1: when main has counted, every key has one entry, whose count is the
\* number of bare-identifier calls, over all files, whose callee maps to the
\* key in the alias map of its file; keys without such calls have no entry.
C1_Aggregate ==
    pc = "returned" =>
        LET perFile == [k \in 1..Len(fs.files) |-> CallsPerKey(fs.files[k], args.m)]
            keys == UNION {DOMAIN perFile[k] : k \in 1..Len(fs.files)}
        IN  /\ \A a, b \in 1..Len(main_hits) : main_hits[a][1] = main_hits[b][1] => a = b
            /\ \A a \in 1..Len(main_hits) :
                  /\ main_hits[a][1] \in keys
                  /\ main_hits[a][2] = TotalCalls(perFile, main_hits[a][1])
            /\ \A K \in keys :
                  TotalCalls(perFile, K) > 0 => \E a \in 1..Len(main_hits) : main_hits[a][1] = K

\* two files reach m.f through different local identifiers, x twice in one
\* file and f once in the other, and the count of m.f is 3
C1_Witness ==
    /\ pc = "returned"
    /\ Len(fs.files) = 2
    /\ \E a \in 1..Len(main_hits) : main_hits[a] = <<"m.f", 3>>
    /\ \E k \in 1..2 :
          LET one == CallsCountedAs(BareCalls(Located(fs.files[k])),
                                    AliasMapOf(fs.files[k], args.m), "m.f")
              other == CallsCountedAs(BareCalls(Located(fs.files[3 - k])),
                                      AliasMapOf(fs.files[3 - k], args.m), "m.f")
          IN  /\ Cardinality(one) = 2 /\ \A e \in one : Callee(e) = "x"
              /\ Cardinality(other) = 1 /\ \A e \in other : Callee(e) = "f"

-----------------------------------------------------------------------------
(* C5 *)

FirstFailing == CHOOSE k \in 1..Len(fs.files) :
                    /\ fs.files[k] = SyntaxErrorFile
                    /\ \A j \in 1..(k - 1) : fs.files[j] # SyntaxErrorFile

\* C5: when some file under the root does not parse, nothing is ever counted,
\* written or printed, no file from the failing one on is processed, and the
\* run ends at the failing file with the hits of the files before it dropped.
C5_ParseFailureAborts ==
    (fs.isdir /\ ~Parses(fs.files)) =>
        /\ main_hits = None /\ csvfile = None /\ stdout = None
        /\ pc \in {"main", "get_calls", "raised"}
        /\ n < FirstFailing
        /\ pc = "raised" => (n = FirstFailing - 1 /\ stderr = Traceback /\ ~ENABLED Next)
        /\ (pc = "get_calls" /\ n = FirstFailing - 1) => ~ENABLED get_calls_loop

\* the run has ended in the failure after a file gave hits
C5_Witness ==
    /\ pc = "raised"
    /\ n >= 1
    /\ hits # <<>>
    /\ csvfile = None /\ stdout = None

-----------------------------------------------------------------------------
(* C6 *)

\* C6: when the root is no directory, main ends with the message and a
\* non-zero status, get_calls is never entered, nothing is parsed and nothing
\* is written or printed.
C6_NotADirectory ==
    ~fs.isdir =>
        /\ pc \in {"main", "exit"}
        /\ n = 0 /\ hits = <<>> /\ imports = <<>>
        /\ main_hits = None /\ csvfile = None /\ stdout = None
        /\ pc = "exit" => (stderr = "given path is not a directory" /\ exit_status(pc) # 0)
        /\ pc = "main" => ENABLED main_not_a_directory

C6_Witness == ~fs.isdir /\ pc = "exit" /\ stderr = NotADirectory

-----------------------------------------------------------------------------
(* C2 *)

\* b is the only binding, and it renames the imported name
OnlyAliased(B, b) == B = {b} /\ b.asname # None /\ b.asname # b.name

\* C2: in a file whose only matching binding is "from M import N as A", every
\* call A(...) gives one hit M.N and nothing else gives a hit, calls N(...)
\* included: A is the only key of the alias map.
C2_AliasOnly ==
    Scanned =>
        LET nodes == Located(TheFile)
            B == TargetBindings(nodes, args.m)
        IN  \A b \in B :
                OnlyAliased(B, b) =>
                    /\ DOMAIN mapping = {b.asname}
                    /\ hits = Repeat(b.key, Cardinality(CallsOf(BareCalls(nodes), b.asname)))

\* such a file calls both the alias and the original name, and has one hit
C2_Witness ==
    /\ Scanned
    /\ LET nodes == Located(TheFile)
           B == TargetBindings(nodes, args.m)
       IN  \E b \in B :
              /\ OnlyAliased(B, b)
              /\ CallsOf(BareCalls(nodes), b.asname) # {}
              /\ CallsOf(BareCalls(nodes), b.name) # {}
              /\ hits = <<b.key>>

-----------------------------------------------------------------------------
(* C3 *)

\* the bindings are two, b then c, of one local identifier for two names
Rebinding(B, b, c) == B = {b, c} /\ Earlier(b, c) /\ b.id = c.id /\ b.key # c.key

\* C3: when the matching from-imports of a file bind one local identifier
\* twice, the alias map has the single entry of the later binding and every
\* hit of the file carries the later key, none the earlier.
C3_LaterBindingWins ==
    Scanned =>
        LET nodes == Located(TheFile)
            B == TargetBindings(nodes, args.m)
        IN  \A b, c \in B :
                Rebinding(B, b, c) =>
                    /\ mapping = (c.id :> c.key)
                    /\ hits = Repeat(c.key, Cardinality(CallsOf(BareCalls(nodes), c.id)))
                    /\ b.key \notin Range(hits)

\* a file rebinds the identifier and calls it
C3_Witness ==
    /\ Scanned
    /\ LET B == TargetBindings(Located(TheFile), args.m)
       IN  \E b, c \in B : Rebinding(B, b, c) /\ hits = <<c.key>>

-----------------------------------------------------------------------------
(* C7 *)

\* the bare-identifier calls of a file whose callee a from-import of the
\* target binds in that file, each with the keys of those bindings
Origins(file, target) ==
    LET nodes == Located(file)
        B == TargetBindings(nodes, target)
    IN  {[call |-> e, keys |-> {b.key : b \in {c \in B : c.id = Callee(e)}}] :
            e \in {c \in BareCalls(nodes) : \E b \in B : b.id = Callee(c)}}

\* C7: at every point of the scan, every hit is the key of a binding of a
\* from-import of the target whose local identifier a bare-identifier call of
\* the same file names, and there are no more hits than such calls: files
\* without a matching from-import and attribute calls contribute none.
C7_HitsHaveOrigin ==
    LET origins == [k \in 1..n |-> Origins(fs.files[k], args.m)]
    IN  /\ \A h \in Range(hits) : \E k \in 1..n : \E o \in origins[k] : h \in o.keys
        /\ Len(hits) <= Sum([k \in 1..n |-> Cardinality(origins[k])])

\* a file calls a bound identifier both bare and as an attribute of the
\* plainly imported module: one hit
C7_Witness ==
    /\ Scanned
    /\ LET nodes == Located(TheFile)
           B == TargetBindings(nodes, args.m)
       IN  /\ \E e \in AttributeCalls(nodes) : e.node.func.attr \in {b.id : b \in B}
           /\ Cardinality(Origins(TheFile, args.m)) = 1
    /\ Len(hits) = 1

-----------------------------------------------------------------------------
(* C10 *)

\* C10: every bare-identifier call of a bound identifier is counted, under the
\* key of the last binding of the identifier in the whole file, wherever the
\* call stands: before or after the imports, in the same or another scope.
C10_PositionIndependent ==
    Scanned =>
        LET nodes == Located(TheFile)
            B == TargetBindings(nodes, args.m)
            ids == LocalAliasMap(B)
            calls == BareCalls(nodes)
        IN  /\ Len(hits) = Cardinality(BoundCalls(calls, ids))
            /\ \A K \in {b.key : b \in B} :
                  Occurrences(hits, K) = Cardinality(CallsCountedAs(calls, ids, K))

\* a call stands before both bindings of its identifier, the second of them
\* in a function, and is counted under the second
C10_Witness ==
    /\ Scanned
    /\ LET nodes == Located(TheFile)
           B == TargetBindings(nodes, args.m)
       IN  \E b, c \in B, e \in BareCalls(nodes) :
              /\ Rebinding(B, b, c)
              /\ Len(c.pos) > 1 /\ TheFile.body[c.pos[1]].kind = "FunctionDef"
              /\ TheFile.body[e.pos[1]].kind = "Expr"
              /\ Callee(e) = c.id
              /\ Before(e.pos, b.pos)
              /\ hits = <<c.key>>

-----------------------------------------------------------------------------
(* C9 *)

ModulesOf(imps) == {imps[j].module : j \in 1..Len(imps)}

RECURSIVE NamesIn(_)
NamesIn(es) ==
    IF es = {}
    THEN 0
    ELSE LET e == CHOOSE x \in es : TRUE
         IN  Len(e.node.names) + NamesIn(es \ {e})

\* C9: the from-imports that contribute bindings are those whose module is
\* given and has the target as a prefix of its characters: for the target
\* foo those from foo, foo.bar and foobar, and calls of a name imported from
\* foobar are counted under foobar.<name>.
C9_PlainPrefix ==
    Scanned =>
        LET nodes == Located(TheFile)
            selected == TargetImports(nodes, args.m)
        IN  /\ ModulesOf(imports) = {e.node.module : e \in selected}
            /\ Len(imports) = NamesIn(selected)
            /\ args.m = "foo" =>
                  ModulesOf(imports) =
                      {e.node.module : e \in FromImports(nodes)} \cap {"foo", "foo.bar", "foobar"}
            /\ \A h \in Range(hits) : \E module \in ModulesOf(imports) : h = module \o ".f"
            /\ selected # {} => Len(hits) = Cardinality(CallsOf(BareCalls(nodes), "f"))

\* with the target foo, a file imports f from foobar only and calls it
C9_Witness ==
    /\ Scanned
    /\ args.m = "foo"
    /\ {e.node.module : e \in FromImports(Located(TheFile))} = {"foobar"}
    /\ hits = <<"foobar.f">>

-----------------------------------------------------------------------------
(* C8 *)

\* C8: an iteration of the loop leaves the hits collected so far in place and
\* appends the hits of the bound calls of its own file, keyed by the bindings
\* of its own file; its alias map holds the bindings of its own file and
\* nothing of the files before.
C8_MapsStayLocal ==
    [][n' = n + 1 =>
          LET nodes == Located(fs.files[n + 1])
              ids == LocalAliasMap(TargetBindings(nodes, args.m))
              calls == BareCalls(nodes)
              added == SubSeq(hits', Len(hits) + 1, Len(hits'))
          IN  /\ mapping' = ids
              /\ hits' = hits \o added
              /\ Len(added) = Cardinality(BoundCalls(calls, ids))
              /\ \A K \in Range(added) :
                    Occurrences(added, K) = Cardinality(CallsCountedAs(calls, ids, K))]_vars

\* two files bind x to different keys and call it, each call counted under
\* the key of its own file; the second file also calls f, which only the
\* first file binds, and that call gives no hit
C8_Witness ==
    /\ pc = "get_calls" /\ n = 2
    /\ LET one == LocalAliasMap(TargetBindings(Located(fs.files[1]), args.m))
           two == LocalAliasMap(TargetBindings(Located(fs.files[2]), args.m))
           calls == BareCalls(Located(fs.files[2]))
           first == Cardinality(BoundCalls(BareCalls(Located(fs.files[1])), one))
           added == SubSeq(hits, first + 1, Len(hits))
       IN  /\ "x" \in DOMAIN one /\ "x" \in DOMAIN two /\ one["x"] # two["x"]
           /\ "f" \in DOMAIN one /\ "f" \notin DOMAIN two
           /\ CallsOf(calls, "f") # {}
           /\ one["x"] \in Range(SubSeq(hits, 1, first))
           /\ added = Repeat(two["x"], Cardinality(CallsOf(calls, "x")))

-----------------------------------------------------------------------------
(* C4 *)

Reordered(seq, pi) == [j \in 1..Len(seq) |-> seq[pi[j]]]

RECURSIVE Shuffles(_)
RECURSIVE ShuffledFrom(_, _)

\* the sequences that take, for each element from index k on, one of its shuffles
ShuffledFrom(seq, k) ==
    IF k > Len(seq)
    THEN {<<>>}
    ELSE {<<head>> \o rest : head \in Shuffles(seq[k]), rest \in ShuffledFrom(seq, k + 1)}

ShuffledSeqs(seq) ==
    {Reordered(t, pi) : t \in ShuffledFrom(seq, 1), pi \in Permutations(1..Len(seq))}

\* the trees a walk of the tree in another order of the children amounts to
Shuffles(node) ==
    CASE node.kind \in {"Module", "FunctionDef"} ->
             {[node EXCEPT !.body = b] : b \in ShuffledSeqs(node.body)}
      [] node.kind = "Expr" ->
             {[node EXCEPT !.value = v] : v \in Shuffles(node.value)}
      [] node.kind = "Call" ->
             {[node EXCEPT !.args = a] : a \in ShuffledSeqs(node.args)}
      [] OTHER -> {node}

Counts(files) == Range(Counter(get_calls(files, args.m)))

\* no local identifier is bound to two keys by the matching imports of the file
SingleKeyed(file, target) ==
    LET B == TargetBindings(Located(file), target)
    IN  \A b, c \in B : b.id = c.id => b.key = c.key

\* the original statement: any order of the files and any order of the nodes
\* of a file give the counts of the run
C4_AnyOrder ==
    pc = "returned" =>
        /\ \A pi \in Permutations(1..Len(fs.files)) :
              Counts(Reordered(fs.files, pi)) = Range(main_hits)
        /\ \A k \in 1..Len(fs.files) : \A t \in Shuffles(fs.files[k]) :
              Counts([fs.files EXCEPT ![k] = t]) = Range(main_hits)

\* C4 (amended): any order of the files gives the counts of the run, and so
\* does any order of the nodes of a file whose matching imports bind no local
\* identifier to two different keys.
C4_OrderIndependent ==
    pc = "returned" =>
        /\ \A pi \in Permutations(1..Len(fs.files)) :
              Counts(Reordered(fs.files, pi)) = Range(main_hits)
        /\ \A k \in 1..Len(fs.files) :
              SingleKeyed(fs.files[k], args.m) =>
                  \A t \in Shuffles(fs.files[k]) :
                      Counts([fs.files EXCEPT ![k] = t]) = Range(main_hits)

\* two files were processed whose hits in the other order are another
\* sequence, and one of them has hits, statements to reorder and bindings of
\* one key each
C4_Witness ==
    /\ pc = "returned"
    /\ Len(fs.files) = 2
    /\ get_calls(<<fs.files[2], fs.files[1]>>, args.m) # hits
    /\ \E k \in 1..2 :
          /\ SingleKeyed(fs.files[k], args.m)
          /\ Cardinality(Shuffles(fs.files[k])) > 1
          /\ get_calls(<<fs.files[k]>>, args.m) # <<>>

====
